---- MODULE Spec2Model ----
(***************************************************************************)
(* A model of slack_mcp_server.py: the pagination loops of                 *)
(* get_channel_history and search_messages, the user-handle cache          *)
(* (get_user_handle, refresh_user_cache, the durable .user_cache.json),    *)
(* the channel cache (_load_channels_to_cache, get_channel_id_by_name,     *)
(* refresh_channel_cache) and the projection of messages                   *)
(* (filter_message_fields, replace_user_mentions).                         *)
(*                                                                         *)
(* The server is an asyncio program.  A coroutine runs without             *)
(* interruption from one network await (make_request) to the next, so one  *)
(* action of the model is one such stretch of one tool invocation: it      *)
(* takes the response of the request in flight and runs the code up to the *)
(* next request or to the return.  Tool invocations of different callers   *)
(* interleave at these awaits and share user_cache, channel_cache and the  *)
(* cache file.                                                             *)
(*                                                                         *)
(* A Python dict is a TLA+ function whose DOMAIN is the set of its keys.   *)
(* The empty string stands for None and for an absent field wherever the   *)
(* code treats the two alike (`if cursor`, `msg.get("user")`, ...).        *)
(***************************************************************************)
EXTENDS Integers, Sequences, FiniteSets, TLC

\* ------------------------------------------------------------------ bounds

\* Largest limit a caller passes in the specification Spec.
MaxLimit == 2

\* The concurrent callers (the framework serves overlapping tool calls).
Procs == {"p1", "p2"}

\* ------------------------------------------------------- program constants

\* min(200, ...) at conversations.history
HISTORY_PAGE_CAP == 200

\* min(100, ...) at search.messages
SEARCH_PAGE_CAP == 100

\* ------------------------------------------------------------------- data

UserIds == {"U1", "U2"}

\* A text is a sequence of tokens: a literal piece, an inline mention <@ID>
\* (what mention_pattern matches), and what replacements make of a mention:
\* "@" followed by a handle, or "@@" followed by a handle.
Lit(s) == [kind |-> "lit", val |-> s]
Mention(u) == [kind |-> "mention", val |-> u]
At(h) == [kind |-> "at", val |-> h]
AtAt(h) == [kind |-> "atat", val |-> h]

\* f'<@{user_id}>'
MentionText(u) == "<@" \o u \o ">"

Msg(u, t, ts, tts) == [user |-> u, text |-> t, ts |-> ts, thread_ts |-> tts]

\* The messages the remote serves on a small page: an author who is also
\* mentioned by others, an author who mentions himself twice in a thread
\* reply, and a message without author.
Msgs ==
  { Msg("U1", <<Lit("hi"), Mention("U2")>>, "100.1", ""),
    Msg("U2", <<Mention("U2"), Mention("U2")>>, "100.2", "100.1"),
    Msg("", <<Lit("joined")>>, "100.3", "100.3") }

\* The message that fills a large page: no author, no mention.
FillerMsg == Msg("", << >>, "100.0", "")

\* A message with an author and nothing else.
PlainMsg == Msg("U1", << >>, "100.4", "")

\* A message that mentions U1 and then its own author.
TwoMentionsMsg == Msg("U2", <<Mention("U1"), Mention("U2")>>, "100.5", "")

\* The messages of a small page, by the focus of the exploration.
MsgsFor(f) ==
  CASE f = "cache" -> Msgs
    [] f = "projection" -> {m \in Msgs : m.thread_ts # ""} \cup {TwoMentionsMsg}
    [] f = "paging" -> {PlainMsg, FillerMsg}
    [] OTHER -> {PlainMsg, FillerMsg}

NoHandle == "<none>"

EmptyDict == [k \in {} |-> ""]

Min(a, b) == IF a <= b THEN a ELSE b

Range(s) == {s[i] : i \in DOMAIN s}

Copies(m, n) == [i \in 1 .. n |-> m]

\* All sequences over S of length at most n.
RECURSIVE SeqsUpTo(_, _)
SeqsUpTo(S, n) ==
  IF n = 0 THEN {<< >>}
  ELSE LET shorter == SeqsUpTo(S, n - 1)
       IN shorter \cup {Append(s, x) : s \in {t \in shorter : Len(t) = n - 1}, x \in S}

\* d[k] = v, as Python's d[k] = v.
Put(d, k, v) == [x \in DOMAIN d \cup {k} |-> IF x = k THEN v ELSE d[x]]

\* ------------------------------------------------- the remote's responses
\* make_request returns None on any transport error or non-2xx status
\* (status "none"), else the decoded body: ok false (status "err") or ok true.

Fail == {"none", "err"}

\* users.info: user.profile.display_name, user.real_name, user.name, each
\* possibly empty or absent; a name is any string, also one that reads as a
\* mention.
Info(status, d, r, n) == [status |-> status, display_name |-> d, real_name |-> r, name |-> n]

InfoResponses(f) ==
  {Info("none", "", "", ""), Info("err", "", "", "")}
  \cup CASE f = "cache" -> {Info("ok", "dn", "rn", "nm"), Info("ok", "", "", "")}
         [] f = "handles" -> [status : {"ok"}, display_name : {"", "dn"},
                              real_name : {"", "rn"}, name : {"", "nm"}]
         [] f = "projection" -> {Info("ok", "dn", "rn", "nm"),
                                 Info("ok", MentionText("U2"), "", "")}
         [] OTHER -> {}

\* A page of q requested items.  With the focus on paging the remote is not
\* trusted to honour q: a page may hold one item more than asked for, and a
\* request for more than MaxLimit items is answered by an empty page, a
\* full page or an overfull page of FillerMsg.
PagesFor(f, q) ==
  IF f = "paging"
  THEN IF q <= MaxLimit
       THEN SeqsUpTo(MsgsFor(f), q + 1)
       ELSE {Copies(FillerMsg, n) : n \in {0, q, q + 1}}
  ELSE SeqsUpTo(MsgsFor(f), q)

\* The values of next_cursor: none, or a continuation cursor.  With the
\* focus on termination the remote has two cursors to hand out, so that
\* consecutive pages can carry different ones.
CursorsFor(f) == IF f = "termination" THEN {"", "c1", "c2"} ELSE {"", "c1"}

\* conversations.history: messages and response_metadata.next_cursor.
HistoryResponses(f, q) ==
  [status : Fail, messages : {<< >>}, next_cursor : {""}]
  \cup [status : {"ok"}, messages : PagesFor(f, q), next_cursor : CursorsFor(f)]

\* search.messages: messages.matches and messages.pagination.page_count
\* (0 stands for an absent page_count).
PageCounts == 0 .. (MaxLimit + 1)

SearchResponses(f, q) ==
  [status : Fail, matches : {<< >>}, page_count : {0}]
  \cup [status : {"ok"}, matches : PagesFor(f, q), page_count : PageCounts]

\* conversations.list: channels[].{name, id}, either possibly empty.
ChanNames == {"general", "dev"}
ChanIds == {"C1", "C2"}
Channel(n, i) == [name |-> n, id |-> i]
ChannelLists ==
  { << >>,
    <<Channel("general", "C1")>>,
    <<Channel("general", "C1"), Channel("dev", "C2")>>,
    <<Channel("dev", "C2"), Channel("", "C1")>>,
    <<Channel("dev", ""), Channel("general", "C2")>> }

ListResponses(f) ==
  [status : Fail, channels : {<< >>}]
  \cup [status : {"ok"}, channels : IF f = "channels" THEN ChannelLists ELSE {<< >>}]

\* ------------------------------------------------- the code's pure parts

\* A page size that forgets what is accumulated: the properties of the
\* requests must tell it from PageSize.
PageSizeOfCap(cap, limit, acc) == cap

\* min(200, limit - len(all_messages)), min(100, limit - len(all_matches))
PageSize(cap, limit, acc) == Min(cap, limit - acc)

\* re.findall(mention_pattern, text) / re.finditer: the mentioned IDs in
\* the order they occur.
RECURSIVE MentionIds(_)
MentionIds(text) ==
  IF text = << >> THEN << >>
  ELSE LET rest == MentionIds(Tail(text))
       IN IF Head(text).kind = "mention" THEN <<Head(text).val>> \o rest ELSE rest

\* The authors alone, without the mentioned IDs: the pre-fetch property
\* must tell it from UniqueUsers.
UniqueAuthors(all) == {all[i].user : i \in {j \in DOMAIN all : all[j].user # ""}}

\* unique_users: the authors (msg.get("user"), when truthy) united with the
\* IDs mentioned in the texts.
UniqueUsers(all) ==
  {all[i].user : i \in {j \in DOMAIN all : all[j].user # ""}}
  \cup UNION {Range(MentionIds(all[i].text)) : i \in DOMAIN all}

\* A choice that prefers real_name to display_name: the priority property
\* must tell it from HandleFor.
HandleForRealNameFirst(resp, user_id) ==
  IF resp.status = "ok"
  THEN IF resp.real_name # "" THEN resp.real_name
       ELSE IF resp.display_name # "" THEN resp.display_name
       ELSE IF resp.name # "" THEN resp.name
       ELSE user_id
  ELSE user_id

\* profile.get("display_name") or user.get("real_name") or user.get("name")
\* or user_id on an ok response; user_id on a failed lookup.
HandleFor(resp, user_id) ==
  IF resp.status = "ok"
  THEN IF resp.display_name # "" THEN resp.display_name
       ELSE IF resp.real_name # "" THEN resp.real_name
       ELSE IF resp.name # "" THEN resp.name
       ELSE user_id
  ELSE user_id

\* A cache that keeps successful lookups only: the negative-cache property
\* must tell it from CacheAfterInfo.
CacheAfterInfoOkOnly(cache, user_id, resp) ==
  IF resp.status = "ok" THEN Put(cache, user_id, HandleFor(resp, user_id)) ELSE cache

\* get_user_handle after the await: both branches store the handle.
CacheAfterInfo(cache, user_id, resp) == Put(cache, user_id, HandleFor(resp, user_id))

\* A loop that stores every entry of the list, named or not: the key
\* property must tell it from FillChannels.
RECURSIVE FillChannelsUnchecked(_, _)
FillChannelsUnchecked(cache, channels) ==
  IF channels = << >> THEN cache
  ELSE FillChannelsUnchecked(Put(cache, Head(channels).name, Head(channels).id),
                             Tail(channels))

\* The loop of _load_channels_to_cache over channels, into cache.
RECURSIVE FillChannels(_, _)
FillChannels(cache, channels) ==
  IF channels = << >> THEN cache
  ELSE LET c == Head(channels)
       IN FillChannels(IF c.name # "" /\ c.id # "" THEN Put(cache, c.name, c.id) ELSE cache,
                       Tail(channels))

\* A reload that clears before it knows the outcome: the failure property
\* must tell it from ChannelCacheAfterList.
ChannelCacheClearedFirst(cache, resp) ==
  IF resp.status = "ok" THEN FillChannels(EmptyDict, resp.channels) ELSE EmptyDict

\* A reload that adds to the cache without clearing it: the rebuild property
\* must tell it from ChannelCacheAfterList.
ChannelCacheMerged(cache, resp) ==
  IF resp.status = "ok" THEN FillChannels(cache, resp.channels) ELSE cache

\* _load_channels_to_cache after the await: clear and refill on ok, nothing
\* on failure.
ChannelCacheAfterList(cache, resp) ==
  IF resp.status = "ok" THEN FillChannels(EmptyDict, resp.channels) ELSE cache

\* The IDs of a sequence in the order of their first occurrence: the order
\* in which replace_user_mentions inserts them into replacements.
RECURSIVE FirstOccurrences(_)
FirstOccurrences(ids) ==
  IF ids = << >> THEN << >>
  ELSE LET d == FirstOccurrences(SubSeq(ids, 1, Len(ids) - 1))
           last == ids[Len(ids)]
       IN IF last \in Range(d) THEN d ELSE Append(d, last)

\* text.replace(f'<@{user_id}>', f'@{handle}'): every occurrence of the
\* mention in the text as it is now, also one that an earlier replacement
\* wrote as a handle.
ReplaceOne(text, user_id, handle) ==
  << >> \o [i \in DOMAIN text |->
             IF text[i] = Mention(user_id) THEN At(handle)
             ELSE IF text[i] = At(MentionText(user_id)) THEN AtAt(handle)
             ELSE text[i]]

RECURSIVE ReplaceEach(_, _, _)
ReplaceEach(text, ids, replacements) ==
  IF ids = << >> THEN text
  ELSE ReplaceEach(IF Head(ids) \in DOMAIN replacements
                   THEN ReplaceOne(text, Head(ids), replacements[Head(ids)])
                   ELSE text,
                   Tail(ids), replacements)

\* replace_user_mentions, the final loop over replacements.items(), in
\* insertion order.
ReplaceText(text, replacements) ==
  ReplaceEach(text, FirstOccurrences(MentionIds(text)), replacements)

\* filter_message_fields, from `if OUTPUT_FORMAT == "json"` on.  The compact
\* line "[ts] @user: text [thread:thread_ts]" is kept as its parts; thread
\* is "" when the suffix is not appended.
Project(format, msg, user_handle, text) ==
  IF format = "json"
  THEN IF msg.thread_ts # ""
       THEN [text |-> text, user |-> user_handle, ts |-> msg.ts, thread_ts |-> msg.thread_ts]
       ELSE [text |-> text, user |-> user_handle, ts |-> msg.ts]
  ELSE [line_ts |-> msg.ts, line_user |-> user_handle, line_text |-> text,
        line_thread |-> IF msg.thread_ts # "" /\ msg.thread_ts # msg.ts
                        THEN msg.thread_ts ELSE ""]

\* -------------------------------------------------------- parse_timestamp
\* Strings are TLA+ strings; Char(s, i) is the i-th character.

Char(s, i) == SubSeq(s, i, i)

DigitChars == "0123456789"

IsDigit(c) == \E i \in 1 .. 10 : c = Char(DigitChars, i)

DigitValue(c) == (CHOOSE i \in 1 .. 10 : c = Char(DigitChars, i)) - 1

AllDigits(s) == Len(s) >= 1 /\ \A i \in 1 .. Len(s) : IsDigit(Char(s, i))

\* int(s) for a string of digits.
RECURSIVE NumberOf(_)
NumberOf(s) ==
  IF Len(s) = 0 THEN 0
  ELSE 10 * NumberOf(SubSeq(s, 1, Len(s) - 1)) + DigitValue(Char(s, Len(s)))

\* str(n) for n >= 0.
RECURSIVE DecimalOf(_)
DecimalOf(n) ==
  IF n < 10 THEN Char(DigitChars, n + 1)
  ELSE DecimalOf(n \div 10) \o Char(DigitChars, (n % 10) + 1)

\* n in decimal, padded with zeros to w digits.
RECURSIVE Padded(_, _)
Padded(n, w) == IF w = 0 THEN "" ELSE Padded(n \div 10, w - 1) \o Char(DigitChars, (n % 10) + 1)

\* re.match(r"^\d+(\.\d+)?$", date_str)
IsUnixTimestamp(s) ==
  \/ AllDigits(s)
  \/ \E i \in 2 .. (Len(s) - 1) :
       /\ Char(s, i) = "."
       /\ AllDigits(SubSeq(s, 1, i - 1))
       /\ AllDigits(SubSeq(s, i + 1, Len(s)))

\* The shape dddd-dd-dd of the first ten characters.
HasDateShape(s) ==
  /\ Len(s) >= 10
  /\ AllDigits(SubSeq(s, 1, 4)) /\ Char(s, 5) = "-"
  /\ AllDigits(SubSeq(s, 6, 7)) /\ Char(s, 8) = "-"
  /\ AllDigits(SubSeq(s, 9, 10))

\* re.match(r"^\d{4}-\d{2}-\d{2}$", date_str)
IsDateOnly(s) == Len(s) = 10 /\ HasDateShape(s)

IsLeap(y) == (y % 4 = 0 /\ y % 100 # 0) \/ y % 400 = 0

DaysIn(y, m) ==
  IF m = 2 THEN (IF IsLeap(y) THEN 29 ELSE 28)
  ELSE IF m \in {4, 6, 9, 11} THEN 30 ELSE 31

\* The days from 1970-01-01 to the date y-m-d of the proleptic Gregorian
\* calendar, what datetime arithmetic computes.
DaysFromEpoch(y, m, d) ==
  LET yy == IF m <= 2 THEN y - 1 ELSE y
      era == yy \div 400
      yoe == yy - era * 400
      mp == IF m > 2 THEN m - 3 ELSE m + 9
      doy == (153 * mp + 2) \div 5 + d - 1
      doe == yoe * 365 + yoe \div 4 - yoe \div 100 + doy
  IN era * 146097 + doe - 719468

NoDateTime == [valid |-> FALSE, seconds |-> 0, micro |-> 0, aware |-> FALSE]

\* The hh:mm of a UTC offset, in seconds.
OffsetOf(s) ==
  IF Len(s) = 6 /\ Char(s, 1) \in {"+", "-"} /\ AllDigits(SubSeq(s, 2, 3))
     /\ Char(s, 4) = ":" /\ AllDigits(SubSeq(s, 5, 6))
     /\ NumberOf(SubSeq(s, 2, 3)) < 24 /\ NumberOf(SubSeq(s, 5, 6)) < 60
  THEN [valid |-> TRUE,
        seconds |-> (IF Char(s, 1) = "-" THEN -1 ELSE 1)
                    * (NumberOf(SubSeq(s, 2, 3)) * 3600 + NumberOf(SubSeq(s, 5, 6)) * 60)]
  ELSE [valid |-> FALSE, seconds |-> 0]

\* datetime.fromisoformat(s) for the forms YYYY-MM-DD and
\* YYYY-MM-DD?HH:MM:SS[.ffffff][+HH:MM], as seconds and microseconds of the
\* wall clock since 1970-01-01 and the UTC offset; ValueError (valid FALSE)
\* for a date or time out of range and for every other string.
FromIsoFormat(s) ==
  IF ~HasDateShape(s) THEN NoDateTime
  ELSE LET y == NumberOf(SubSeq(s, 1, 4))
           m == NumberOf(SubSeq(s, 6, 7))
           d == NumberOf(SubSeq(s, 9, 10))
           dateOk == y >= 1 /\ m \in 1 .. 12 /\ d >= 1 /\ d <= DaysIn(y, m)
           days == DaysFromEpoch(y, m, d)
       IN IF ~dateOk THEN NoDateTime
          ELSE IF Len(s) = 10
          THEN [valid |-> TRUE, seconds |-> days * 86400, micro |-> 0, aware |-> FALSE,
                offset |-> 0]
          ELSE IF Len(s) >= 19 /\ AllDigits(SubSeq(s, 12, 13)) /\ Char(s, 14) = ":"
                  /\ AllDigits(SubSeq(s, 15, 16)) /\ Char(s, 17) = ":"
                  /\ AllDigits(SubSeq(s, 18, 19))
          THEN LET hh == NumberOf(SubSeq(s, 12, 13))
                   mi == NumberOf(SubSeq(s, 15, 16))
                   ss == NumberOf(SubSeq(s, 18, 19))
                   frac == Len(s) >= 26 /\ Char(s, 20) = "."
                           /\ AllDigits(SubSeq(s, 21, 26))
                   micro == IF frac THEN NumberOf(SubSeq(s, 21, 26)) ELSE 0
                   rest == SubSeq(s, IF frac THEN 27 ELSE 20, Len(s))
                   off == OffsetOf(rest)
                   wall == days * 86400 + hh * 3600 + mi * 60 + ss
               IN IF hh < 24 /\ mi < 60 /\ ss < 60 /\ (rest = "" \/ off.valid)
                  THEN [valid |-> TRUE, seconds |-> wall, micro |-> micro,
                        aware |-> rest # "", offset |-> off.seconds]
                  ELSE NoDateTime
          ELSE NoDateTime

\* date_str.replace('Z', '+00:00')
RECURSIVE ReplaceZ(_)
ReplaceZ(s) ==
  IF Len(s) = 0 THEN ""
  ELSE (IF Char(s, 1) = "Z" THEN "+00:00" ELSE Char(s, 1)) \o ReplaceZ(SubSeq(s, 2, Len(s)))

\* f"{dt.timestamp():.6f}" for a time not before 1970.
FormatMicro(seconds, micro) == DecimalOf(seconds) \o "." \o Padded(micro, 6)

\* A conversion that drops the fraction: the format property must tell it
\* from ParseTimestamp.
ParseTimestampWholeSeconds(date_str, is_end_of_range) ==
  IF date_str = "" THEN ""
  ELSE IF IsUnixTimestamp(date_str) THEN date_str
  ELSE LET dt == FromIsoFormat(ReplaceZ(date_str))
       IN IF dt.valid THEN DecimalOf(dt.seconds - dt.offset) ELSE ""

\* parse_timestamp
ParseTimestamp(date_str, is_end_of_range) ==
  IF date_str = "" THEN ""
  ELSE IF IsUnixTimestamp(date_str) THEN date_str
  ELSE IF IsDateOnly(date_str)
  THEN LET dt == FromIsoFormat(date_str)
       IN IF ~dt.valid THEN ""
          ELSE IF is_end_of_range
          THEN FormatMicro(dt.seconds + 23 * 3600 + 59 * 60 + 59, 999999)
          ELSE FormatMicro(dt.seconds, 0)
  ELSE LET dt == FromIsoFormat(ReplaceZ(date_str))
       IN IF dt.valid THEN FormatMicro(dt.seconds - dt.offset, dt.micro) ELSE ""

\* The oldest and latest arguments of get_channel_history.
DateInputs ==
  {"", "1700000000", "100.1", "1700000000.123456", "12.", "2024-01-15", "2024-02-30",
   "2024-01-15T10:30:00", "2024-01-15T10:30:00Z", "2024-01-15T10:30:00.250000+02:00",
   "2024-01-15T25:00:00", "yesterday"}

DatesFor(f, op) ==
  IF f = "timestamps" /\ op = "get_channel_history" THEN DateInputs ELSE {""}

\* ------------------------------------------------------------------ state

VARIABLES
  started,        \* the __main__ block has run _load_user_cache
  OUTPUT_FORMAT,  \* "compact" or "json", read once from the environment
  disk,           \* USER_CACHE_FILE: absent, unparseable, or a document
  user_cache,     \* _user_cache
  channel_cache,  \* _channel_cache
  inv,            \* per caller: the tool invocation it is in (its locals)
  focus,          \* which inputs this exploration draws in full: "cache",
                  \* "paging", "channels", "handles" or "projection" (fixed
                  \* by the initial state)
  resolved,       \* history: per user ID, the handle the first get_user_handle
                  \* call completed since the last clear returned
  everOk,         \* history: per user ID, whether a users.info lookup of it
                  \* has ever succeeded (a loaded entry ID -> other counts)
  ev              \* history: what the last step did: the get_user_handle
                  \* calls it completed; the channel reload it ended, with
                  \* the list received and the cache as it was before;
                  \* the outcome of the unlink of the cache file; the body
                  \* of the users.info response it took, when ok

vars == <<started, OUTPUT_FORMAT, disk, user_cache, channel_cache, inv, focus,
          resolved, everOk, ev>>

Absent == [state |-> "absent", doc |-> EmptyDict]
Corrupt == [state |-> "corrupt", doc |-> EmptyDict]
Doc(d) == [state |-> "doc", doc |-> d]

\* What the cache file may hold when the process starts.
InitialDisks == {Absent, Corrupt, Doc(Put(EmptyDict, "U1", "dn"))}

NoCall == [user |-> "", late |-> FALSE, first |-> NoHandle]
NoInfo == Info("", "", "", "")
\* No search.messages response taken by the step.
NoPage == [by |-> "", status |-> "", size |-> 0, page_count |-> 0]
NoEvent ==
  [calls |-> {}, by |-> "", reload |-> "", before |-> EmptyDict, channels |-> << >>,
   unlink |-> "", info |-> NoInfo, page |-> NoPage]
ZeroCount == [u \in UserIds |-> 0]

\* A caller between two invocations.  got, failed, reqs, attempts and lists
\* are history fields; oldest and latest are the date arguments of
\* get_channel_history and oldest_ts, latest_ts their conversions; pages
\* is the history of the page numbers search_messages has requested.  The
\* history fields: the concatenation of the pages received, whether a
\* page request failed, the users.info requests issued and the
\* get_user_handle calls of the pre-fetch loop, per user ID, and the
\* conversations.list requests issued.
IdleRec ==
  [op |-> "idle", pc |-> "idle", limit |-> 0, name |-> "", all |-> << >>,
   cursor |-> "", page |-> 0, req |-> 0, todo |-> {}, wait |-> NoCall,
   tasks |-> << >>, ret |-> << >>,
   got |-> << >>, failed |-> FALSE, reqs |-> ZeroCount, attempts |-> ZeroCount,
   lists |-> 0, oldest |-> "", latest |-> "", oldest_ts |-> "", latest_ts |-> "",
   pages |-> << >>]

ToolCall(op, limit, name) == [op |-> op, limit |-> limit, name |-> name]

\* channel_name arguments: a name with its leading '#' characters counted.
NameArgs == {<<0, "general">>, <<1, "general">>, <<2, "dev">>, <<0, "ops">>}

\* channel_name.lstrip("#")
CleanName(arg) == arg[2]

Paging(limits) ==
  {ToolCall(op, l, "") : op \in {"get_channel_history", "search_messages"}, l \in limits}

Lookups(args) == {ToolCall("get_channel_id_by_name", 0, CleanName(a)) : a \in args}

RefreshChannels == ToolCall("refresh_channel_cache", 0, "")
RefreshUsers == ToolCall("refresh_user_cache", 0, "")

\* The tool calls caller p may make.  No exploration can draw every input
\* in full for two concurrent callers, so each draws one part in full and
\* keeps every tool reachable:
\*   "cache"    the user cache under concurrency: p1 pages with limits
\*              1 .. MaxLimit over messages with authors and mentions and
\*              every kind of users.info response, while p2 clears;
\*   "paging"   the loops: p1 pages with the limits 1 .. MaxLimit and with
\*              limits just above the two page caps, p2 only clears;
\*   "channels" the channel cache: both callers look up and refresh;
\*   "handles"  the choice of the handle: p1 fetches one message with an
\*              author at a time, with every shape of users.info profile,
\*              while p2 clears;
\*   "projection" the projection of single messages: p1 fetches one message
\*              with mentions or a thread at a time, in either output
\*              format, while p2 clears;
\*   "timestamps" the date arguments: p1 fetches one message at a time with
\*              every date string of DateInputs, while p2 clears;
\*   "termination" the end of the loops: p1 pages with the limits
\*              1 .. MaxLimit against a remote with two cursors, while p2
\*              clears.
Menu(f, p) ==
  CASE f = "cache" ->
         IF p = "p1"
         THEN {ToolCall("get_channel_history", l, "") : l \in 1 .. MaxLimit}
              \cup {ToolCall("search_messages", 1, "")}
              \cup Lookups({<<0, "general">>}) \cup {RefreshChannels, RefreshUsers}
         ELSE {RefreshUsers}
    [] f = "paging" ->
         IF p = "p1"
         THEN Paging((1 .. MaxLimit) \cup {SEARCH_PAGE_CAP + 1, HISTORY_PAGE_CAP + 1})
              \cup Lookups({<<0, "general">>}) \cup {RefreshChannels}
         ELSE {RefreshUsers}
    [] f = "termination" ->
         IF p = "p1"
         THEN Paging(1 .. MaxLimit) \cup Lookups({<<0, "general">>}) \cup {RefreshChannels}
         ELSE {RefreshUsers}
    [] f \in {"handles", "projection", "timestamps"} ->
         IF p = "p1"
         THEN Paging({1}) \cup Lookups({<<0, "general">>}) \cup {RefreshChannels}
         ELSE {RefreshUsers}
    [] OTHER ->
         IF p = "p1"
         THEN Lookups(NameArgs) \cup {RefreshChannels, RefreshUsers}
              \cup {ToolCall("get_channel_history", 1, "")}
         ELSE Lookups(NameArgs) \cup {RefreshChannels, ToolCall("search_messages", 1, "")}

InitCommon ==
  /\ started = FALSE
  /\ OUTPUT_FORMAT \in IF focus = "projection" THEN {"compact", "json"} ELSE {"compact"}
  /\ disk \in IF focus = "cache" THEN InitialDisks ELSE {Absent}
  /\ user_cache = EmptyDict
  /\ channel_cache = EmptyDict
  /\ inv = [p \in Procs |-> IdleRec]
  /\ resolved = [u \in UserIds |-> NoHandle]
  /\ everOk = [u \in UserIds |-> FALSE]
  /\ ev = NoEvent

Init ==
  /\ focus = "cache"
  /\ InitCommon

InitPaging ==
  /\ focus = "paging"
  /\ InitCommon

InitChannels ==
  /\ focus = "channels"
  /\ InitCommon

InitHandles ==
  /\ focus = "handles"
  /\ InitCommon

InitProjection ==
  /\ focus = "projection"
  /\ InitCommon

InitTimestamps ==
  /\ focus = "timestamps"
  /\ InitCommon

InitTermination ==
  /\ focus = "termination"
  /\ InitCommon

\* _load_user_cache, called once by the __main__ block before mcp.run.
LoadUserCache ==
  /\ ~started
  /\ started' = TRUE
  /\ user_cache' = IF disk.state = "doc" THEN disk.doc ELSE EmptyDict
  /\ everOk' = [u \in UserIds |->
                  disk.state = "doc" /\ u \in DOMAIN disk.doc /\ disk.doc[u] # u]
  /\ ev' = NoEvent
  /\ UNCHANGED <<OUTPUT_FORMAT, disk, channel_cache, inv, focus, resolved>>

\* -------------------------------------------------------- get_user_handle
\* A get_user_handle(user_id) call with user_id in _user_cache returns
\* without an await; on a miss it issues users.info and is suspended until
\* the response.  A call is "late" when another call for the same ID had
\* completed, since the last clear, before it started.

Call(u, res) == [user |-> u, late |-> res[u] # NoHandle, first |-> res[u]]

Completed(c, h, fetched) ==
  [user |-> c.user, ret |-> h, fetched |-> fetched, late |-> c.late, first |-> c.first]

Note(res, u, h) == IF res[u] = NoHandle THEN [res EXCEPT ![u] = h] ELSE res

Outcome(rec, res, calls) == [rec |-> rec, res |-> res, calls |-> calls]

\* ------------------------------------------------- filter_message_fields
\* One task of asyncio.gather: filter_message_fields(msg).  pc is "start",
\* "author" (suspended in get_user_handle(user_id)), "mention" (suspended in
\* the get_user_handle of the match at idx + 1) or "done".

NewTask ==
  [pc |-> "start", user_handle |-> "", idx |-> 0, repl |-> EmptyDict,
   call |-> NoCall, out |-> << >>]

\* replace_user_mentions from match idx + 1 on, then the projection.
RECURSIVE RunMentions(_, _, _, _, _, _)
RunMentions(format, t, msg, cache, res, calls) ==
  LET ids == MentionIds(msg.text)
  IN IF t.idx >= Len(ids)
     THEN Outcome([t EXCEPT !.pc = "done",
                            !.out = Project(format, msg, t.user_handle,
                                            ReplaceText(msg.text, t.repl))],
                  res, calls)
     ELSE LET u == ids[t.idx + 1]
          IN IF u \in DOMAIN t.repl
             THEN RunMentions(format, [t EXCEPT !.idx = @ + 1], msg, cache, res, calls)
             ELSE IF u \in DOMAIN cache
             THEN RunMentions(format,
                              [t EXCEPT !.idx = @ + 1, !.repl = Put(@, u, cache[u])],
                              msg, cache, Note(res, u, cache[u]),
                              calls \cup {Completed(Call(u, res), cache[u], FALSE)})
             ELSE Outcome([t EXCEPT !.pc = "mention", !.call = Call(u, res)], res, calls)

\* filter_message_fields from its first line to its first suspension.
StartTask(format, msg, cache, res, calls) ==
  IF msg.user = ""
  THEN RunMentions(format, [NewTask EXCEPT !.pc = "run"], msg, cache, res, calls)
  ELSE IF msg.user \in DOMAIN cache
  THEN RunMentions(format, [NewTask EXCEPT !.pc = "run", !.user_handle = cache[msg.user]],
                   msg, cache, Note(res, msg.user, cache[msg.user]),
                   calls \cup {Completed(Call(msg.user, res), cache[msg.user], FALSE)})
  ELSE Outcome([NewTask EXCEPT !.pc = "author", !.call = Call(msg.user, res)], res, calls)

\* A suspended task resumed with the handle h its get_user_handle returned.
ResumeTask(format, t, msg, h, cache, res, calls) ==
  IF t.pc = "author"
  THEN RunMentions(format, [t EXCEPT !.pc = "run", !.user_handle = h, !.call = NoCall],
                   msg, cache, res, calls)
  ELSE RunMentions(format,
                   [t EXCEPT !.pc = "run", !.idx = @ + 1, !.call = NoCall,
                             !.repl = Put(@, t.call.user, h)],
                   msg, cache, res, calls)

\* asyncio.gather(*[filter_message_fields(msg) for msg in all]): the tasks
\* take their first steps one after the other, in the order of the batch.
\* No first step writes the cache, so task i sees the cache of the start,
\* and sees as completed the calls the tasks before it completed.
StartTasks(format, all, cache, res) ==
  LET n == Len(all)
      alone == << >> \o [i \in 1 .. n |-> StartTask(format, all[i], cache, res, {})]
      found(i, u) == \E c \in alone[i].calls : c.user = u
      \* the first task that completes a call for u, n + 1 when none does
      first == EmptyDict @@
                 [u \in UserIds |->
                    IF \E i \in 1 .. n : found(i, u)
                    THEN CHOOSE i \in 1 .. n :
                           found(i, u) /\ \A j \in 1 .. (i - 1) : ~found(j, u)
                    ELSE n + 1]
      before(i) == [u \in UserIds |->
                      IF res[u] = NoHandle /\ first[u] < i THEN cache[u] ELSE res[u]]
      steps == << >> \o [i \in 1 .. n |-> StartTask(format, all[i], cache, before(i), {})]
  IN [tasks |-> << >> \o [i \in 1 .. n |-> steps[i].rec],
      res |-> before(n + 1),
      calls |-> UNION {steps[i].calls : i \in 1 .. n}]

AllDone(tasks) == \A i \in DOMAIN tasks : tasks[i].pc = "done"

Results(tasks) == [i \in DOMAIN tasks |-> tasks[i].out]

\* The users.info requests the suspended tasks wait for, per user ID.
Waiting(tasks, u) == Cardinality({i \in DOMAIN tasks : tasks[i].call.user = u})

\* ----------------------------------------------------- the pagination loops

\* An all-or-nothing iteration, which gives up the accumulated items when a
\* request fails: the partial-result property must tell it from HistoryStep.
HistoryStepAllOrNothing(all, cursor, resp) ==
  IF resp.status \in Fail
  THEN [all |-> << >>, cursor |-> cursor, break |-> TRUE]
  ELSE [all |-> all \o resp.messages, cursor |-> resp.next_cursor,
        break |-> resp.next_cursor = ""]

\* get_channel_history, one iteration from the response on: break on a
\* failed request, else extend, take next_cursor, break when it is empty.
HistoryStep(all, cursor, resp) ==
  IF resp.status \in Fail
  THEN [all |-> all, cursor |-> cursor, break |-> TRUE]
  ELSE [all |-> all \o resp.messages, cursor |-> resp.next_cursor,
        break |-> resp.next_cursor = ""]

\* An iteration that goes by the emptiness of the page alone and ignores
\* page_count: the properties of the page numbers must tell it from
\* SearchStep.
SearchStepUntilEmpty(all, page, resp) ==
  IF resp.status \in Fail
  THEN [all |-> all, page |-> page, break |-> TRUE]
  ELSE LET break == Len(resp.matches) = 0
       IN [all |-> all \o resp.matches, page |-> IF break THEN page ELSE page + 1,
           break |-> break]

\* search_messages, one iteration from the response on: break on a failed
\* request, else extend, break when page >= page_count (1 when absent) or
\* the page is empty, else page += 1.
SearchStep(all, page, resp) ==
  IF resp.status \in Fail
  THEN [all |-> all, page |-> page, break |-> TRUE]
  ELSE LET total_pages == IF resp.page_count = 0 THEN 1 ELSE resp.page_count
           break == page >= total_pages \/ Len(resp.matches) = 0
       IN [all |-> all \o resp.matches, page |-> IF break THEN page ELSE page + 1,
           break |-> break]

PageCap(op) == IF op = "get_channel_history" THEN HISTORY_PAGE_CAP ELSE SEARCH_PAGE_CAP

\* `while len(all) < limit`: whether the loop issues another request.
LoopContinues(r, break) == ~break /\ Len(r.all) < r.limit

\* The request of the next iteration; search_messages sends its page
\* number.
NextRequest(r) ==
  [r EXCEPT !.pc = "page", !.req = PageSize(PageCap(r.op), r.limit, Len(r.all)),
            !.pages = IF r.op = "search_messages" THEN Append(@, r.page) ELSE @]

Bump(count, S) == [u \in UserIds |-> IF u \in S THEN count[u] + 1 ELSE count[u]]

\* `for user_id in unique_users: await get_user_handle(user_id)` from the
\* IDs in r.todo on, up to the next users.info request or to the call of
\* asyncio.gather.  A set is iterated in no particular order: the IDs H
\* found in the cache before the first miss u are any cached IDs.  With an
\* empty batch gather returns at once.
PrefetchOutcomes(r, cache, res) ==
  LET hits == r.todo \cap DOMAIN cache
      misses == r.todo \ DOMAIN cache
      noted(H) == [u \in UserIds |-> IF u \in H THEN Note(res, u, cache[u])[u] ELSE res[u]]
      events(H) == {Completed(Call(u, res), cache[u], FALSE) : u \in H}
  IN { Outcome([r EXCEPT !.pc = "prefetch", !.todo = r.todo \ (H \cup {u}),
                         !.wait = Call(u, res), !.reqs = Bump(@, {u}),
                         !.attempts = Bump(@, H \cup {u})],
               noted(H), events(H)) : u \in misses, H \in SUBSET hits }
     \cup IF misses = {}
          THEN { Outcome([r EXCEPT !.pc = IF r.all = << >> THEN "done" ELSE "gather",
                                   !.todo = {}, !.wait = NoCall,
                                   !.attempts = Bump(@, hits), !.ret = << >>],
                         noted(hits), events(hits)) }
          ELSE {}

\* From the end of the loop on: unique_users, then the pre-fetch loop.
AfterLoop(r, cache, res) ==
  PrefetchOutcomes([r EXCEPT !.req = 0, !.todo = UniqueUsers(r.all)], cache, res)

\* From the response of a page request on.
AfterPage(r, break, cache, res) ==
  IF LoopContinues(r, break)
  THEN {Outcome(NextRequest(r), res, {})}
  ELSE AfterLoop(r, cache, res)

\* ---------------------------------------------------------------- actions

Calls(events) == [NoEvent EXCEPT !.calls = events]

\* The event of a step that took the users.info response resp.
Fetched(events, resp) ==
  [NoEvent EXCEPT !.calls = events, !.info = IF resp.status = "ok" THEN resp ELSE NoInfo]

\* A save that leaves the file as it is: the durability property must tell
\* it from SaveOutcomes.
SaveOutcomesNothing(file, cache) == {file}

\* _save_user_cache: the document is rewritten in full.  The write is
\* taken to succeed (a failing open() or json.dump is swallowed by the code
\* and changes nothing in memory).
SaveOutcomes(file, cache) == {Doc(cache)}

\* A caller invokes a tool.  Every tool but refresh_user_cache's clear
\* starts with `await log_to_slack(...)`: post_message(skip_log=True), whose
\* first request is conversations.join.
Invoke(p) ==
  /\ started
  /\ inv[p].pc = "idle"
  /\ \E c \in Menu(focus, p) : \E d \in DatesFor(focus, c.op) :
       inv' = [inv EXCEPT ![p] = [IdleRec EXCEPT !.op = c.op, !.pc = "log_join",
                                                 !.limit = c.limit, !.name = c.name,
                                                 !.oldest = d, !.latest = d]]
  /\ ev' = NoEvent
  /\ UNCHANGED <<started, OUTPUT_FORMAT, disk, user_cache, channel_cache, focus,
                 resolved, everOk>>

\* join_channel got a body (ok or not): join returns data.get("ok"), and
\* post_message issues chat.postMessage.
LogJoin(p) ==
  /\ inv[p].pc = "log_join"
  /\ inv' = [inv EXCEPT ![p].pc = "log_post"]
  /\ ev' = NoEvent
  /\ UNCHANGED <<started, OUTPUT_FORMAT, disk, user_cache, channel_cache, focus,
                 resolved, everOk>>

\* make_request returned None to join_channel or to post_message:
\* data.get("ok") raises AttributeError, which nothing catches.
LogRaise(p) ==
  /\ inv[p].pc \in {"log_join", "log_post"}
  /\ inv' = [inv EXCEPT ![p].pc = "raised"]
  /\ ev' = NoEvent
  /\ UNCHANGED <<started, OUTPUT_FORMAT, disk, user_cache, channel_cache, focus,
                 resolved, everOk>>

\* get_channel_history / search_messages after log_to_slack: the first
\* iteration of the loop (all is empty, page = 1, cursor = None).
\* get_channel_history converts its date arguments first.
BeginPaging(p) ==
  /\ inv[p].pc = "log_post"
  /\ inv[p].op \in {"get_channel_history", "search_messages"}
  /\ LET history == inv[p].op = "get_channel_history"
         r == [inv[p] EXCEPT
                 !.page = IF history THEN 0 ELSE 1,
                 !.oldest_ts = IF history THEN ParseTimestamp(inv[p].oldest, FALSE) ELSE "",
                 !.latest_ts = IF history THEN ParseTimestamp(inv[p].latest, TRUE) ELSE ""]
     IN \E o \in AfterPage(r, FALSE, user_cache, resolved) :
          /\ inv' = [inv EXCEPT ![p] = o.rec]
          /\ resolved' = o.res
          /\ ev' = Calls(o.calls)
  /\ UNCHANGED <<started, OUTPUT_FORMAT, disk, user_cache, channel_cache, focus, everOk>>

\* The response of conversations.history.
HistoryPage(p) ==
  /\ inv[p].pc = "page"
  /\ inv[p].op = "get_channel_history"
  /\ \E resp \in HistoryResponses(focus, inv[p].req) :
       LET h == HistoryStep(inv[p].all, inv[p].cursor, resp)
           r == [inv[p] EXCEPT !.all = h.all, !.cursor = h.cursor,
                               !.got = @ \o resp.messages,
                               !.failed = resp.status \in Fail]
       IN \E o \in AfterPage(r, h.break, user_cache, resolved) :
            /\ inv' = [inv EXCEPT ![p] = o.rec]
            /\ resolved' = o.res
            /\ ev' = Calls(o.calls)
  /\ UNCHANGED <<started, OUTPUT_FORMAT, disk, user_cache, channel_cache, focus, everOk>>

\* The response of search.messages.
SearchPage(p) ==
  /\ inv[p].pc = "page"
  /\ inv[p].op = "search_messages"
  /\ \E resp \in SearchResponses(focus, inv[p].req) :
       LET h == SearchStep(inv[p].all, inv[p].page, resp)
           r == [inv[p] EXCEPT !.all = h.all, !.page = h.page,
                               !.got = @ \o resp.matches,
                               !.failed = resp.status \in Fail]
       IN \E o \in AfterPage(r, h.break, user_cache, resolved) :
            /\ inv' = [inv EXCEPT ![p] = o.rec]
            /\ resolved' = o.res
            /\ ev' = [Calls(o.calls) EXCEPT
                        !.page = [by |-> p, status |-> resp.status,
                                  size |-> Len(resp.matches),
                                  page_count |-> resp.page_count]]
  /\ UNCHANGED <<started, OUTPUT_FORMAT, disk, user_cache, channel_cache, focus, everOk>>

\* The response of users.info to the get_user_handle of the pre-fetch loop:
\* the handle is stored and the cache saved, then the loop goes on.
PrefetchInfo(p) ==
  /\ inv[p].pc = "prefetch"
  /\ \E resp \in InfoResponses(focus) :
       LET c == inv[p].wait
           handle == HandleFor(resp, c.user)
           cache == CacheAfterInfo(user_cache, c.user, resp)
           res == Note(resolved, c.user, handle)
       IN /\ user_cache' = cache
          /\ disk' \in SaveOutcomes(disk, cache)
          /\ everOk' = [everOk EXCEPT ![c.user] = @ \/ resp.status = "ok"]
          /\ \E o \in PrefetchOutcomes([inv[p] EXCEPT !.wait = NoCall], cache, res) :
               /\ inv' = [inv EXCEPT ![p] = o.rec]
               /\ resolved' = o.res
               /\ ev' = Fetched(o.calls \cup {Completed(c, handle, TRUE)}, resp)
  /\ UNCHANGED <<started, OUTPUT_FORMAT, channel_cache, focus>>

\* The tasks asyncio.gather created take their first steps.
GatherStart(p) ==
  /\ inv[p].pc = "gather"
  /\ LET g == StartTasks(OUTPUT_FORMAT, inv[p].all, user_cache, resolved)
         done == AllDone(g.tasks)
     IN /\ inv' = [inv EXCEPT ![p].tasks = g.tasks,
                              ![p].pc = IF done THEN "done" ELSE "tasks",
                              ![p].ret = IF done THEN Results(g.tasks) ELSE << >>,
                              ![p].reqs = [u \in UserIds |-> @[u] + Waiting(g.tasks, u)]]
        /\ resolved' = g.res
        /\ ev' = Calls(g.calls)
  /\ UNCHANGED <<started, OUTPUT_FORMAT, disk, user_cache, channel_cache, focus, everOk>>

\* The response of users.info to the get_user_handle a task is suspended
\* in; the task runs on to its next miss or to its end, and gather returns
\* when the last task ends.
TaskInfo(p, i) ==
  /\ inv[p].pc = "tasks"
  /\ i \in DOMAIN inv[p].tasks
  /\ inv[p].tasks[i].pc \in {"author", "mention"}
  /\ \E resp \in InfoResponses(focus) :
       LET t == inv[p].tasks[i]
           c == t.call
           handle == HandleFor(resp, c.user)
           cache == CacheAfterInfo(user_cache, c.user, resp)
           res == Note(resolved, c.user, handle)
           o == ResumeTask(OUTPUT_FORMAT, t, inv[p].all[i], handle, cache, res,
                           {Completed(c, handle, TRUE)})
           tasks == [inv[p].tasks EXCEPT ![i] = o.rec]
           done == AllDone(tasks)
       IN /\ user_cache' = cache
          /\ disk' \in SaveOutcomes(disk, cache)
          /\ everOk' = [everOk EXCEPT ![c.user] = @ \/ resp.status = "ok"]
          /\ inv' = [inv EXCEPT ![p].tasks = tasks,
                                ![p].pc = IF done THEN "done" ELSE "tasks",
                                ![p].ret = IF done THEN Results(tasks) ELSE << >>,
                                ![p].reqs = IF o.rec.pc = "mention"
                                            THEN Bump(@, {o.rec.call.user}) ELSE @]
          /\ resolved' = o.res
          /\ ev' = Fetched(o.calls, resp)
  /\ UNCHANGED <<started, OUTPUT_FORMAT, channel_cache, focus>>

TaskStep(p) == \E i \in DOMAIN inv[p].tasks : TaskInfo(p, i)

\* A lookup that reloads without looking at the cache first: the lookup
\* property must tell it from BeginChannelLookup.
BeginChannelLookupReloading(p) ==
  /\ inv[p].pc = "log_post"
  /\ inv[p].op = "get_channel_id_by_name"
  /\ inv' = [inv EXCEPT ![p].pc = "list", ![p].lists = @ + 1]
  /\ ev' = NoEvent
  /\ UNCHANGED <<started, OUTPUT_FORMAT, disk, user_cache, channel_cache, focus,
                 resolved, everOk>>

\* get_channel_id_by_name after log_to_slack: a hit returns, a miss calls
\* _load_channels_to_cache, which issues conversations.list.
BeginChannelLookup(p) ==
  /\ inv[p].pc = "log_post"
  /\ inv[p].op = "get_channel_id_by_name"
  /\ inv' = IF inv[p].name \in DOMAIN channel_cache
            THEN [inv EXCEPT ![p].pc = "done", ![p].ret = channel_cache[inv[p].name]]
            ELSE [inv EXCEPT ![p].pc = "list", ![p].lists = @ + 1]
  /\ ev' = NoEvent
  /\ UNCHANGED <<started, OUTPUT_FORMAT, disk, user_cache, channel_cache, focus,
                 resolved, everOk>>

\* refresh_channel_cache after log_to_slack: _load_channels_to_cache.
BeginChannelRefresh(p) ==
  /\ inv[p].pc = "log_post"
  /\ inv[p].op = "refresh_channel_cache"
  /\ inv' = [inv EXCEPT ![p].pc = "list", ![p].lists = @ + 1]
  /\ ev' = NoEvent
  /\ UNCHANGED <<started, OUTPUT_FORMAT, disk, user_cache, channel_cache, focus,
                 resolved, everOk>>

\* The response of conversations.list: the rest of _load_channels_to_cache
\* and of its caller.  refresh_channel_cache returns its result;
\* get_channel_id_by_name looks the name up again after a successful load.
ChannelList(p) ==
  /\ inv[p].pc = "list"
  /\ \E resp \in ListResponses(focus) :
       LET cache == ChannelCacheAfterList(channel_cache, resp)
           loaded == resp.status = "ok"
       IN /\ channel_cache' = cache
          /\ inv' = [inv EXCEPT ![p].pc = "done",
                                ![p].ret = IF inv[p].op = "refresh_channel_cache"
                                           THEN loaded
                                           ELSE IF loaded /\ inv[p].name \in DOMAIN cache
                                           THEN cache[inv[p].name] ELSE ""]
          /\ ev' = [NoEvent EXCEPT !.by = p, !.reload = IF loaded THEN "ok" ELSE "failed",
                                   !.before = channel_cache,
                                   !.channels = resp.channels]
  /\ UNCHANGED <<started, OUTPUT_FORMAT, disk, user_cache, focus, resolved, everOk>>

\* USER_CACHE_FILE.unlink() when the file exists: it removes the file, or
\* raises and leaves it ("none": there was no file to unlink).
UnlinkOutcomes(file) ==
  IF file.state = "absent"
  THEN {[disk |-> file, result |-> "none"]}
  ELSE {[disk |-> Absent, result |-> "ok"], [disk |-> file, result |-> "failed"]}

\* A refresh that counts after it has cleared: the clear property must tell
\* it from RefreshUserCache.
RefreshUserCacheCountingLate(p) ==
  /\ inv[p].pc = "log_post"
  /\ inv[p].op = "refresh_user_cache"
  /\ inv' = [inv EXCEPT ![p].pc = "done", ![p].ret = Cardinality(DOMAIN EmptyDict)]
  /\ user_cache' = EmptyDict
  /\ \E o \in UnlinkOutcomes(disk) :
       /\ disk' = o.disk
       /\ ev' = [NoEvent EXCEPT !.by = p, !.unlink = o.result]
  /\ resolved' = [u \in UserIds |-> NoHandle]
  /\ UNCHANGED <<started, OUTPUT_FORMAT, channel_cache, focus, everOk>>

\* refresh_user_cache after log_to_slack: count, clear, and unlink the file
\* if it exists; a failing unlink is caught and leaves the file.
RefreshUserCache(p) ==
  /\ inv[p].pc = "log_post"
  /\ inv[p].op = "refresh_user_cache"
  /\ inv' = [inv EXCEPT ![p].pc = "done", ![p].ret = Cardinality(DOMAIN user_cache)]
  /\ user_cache' = EmptyDict
  /\ \E o \in UnlinkOutcomes(disk) :
       /\ disk' = o.disk
       /\ ev' = [NoEvent EXCEPT !.by = p, !.unlink = o.result]
  /\ resolved' = [u \in UserIds |-> NoHandle]
  /\ UNCHANGED <<started, OUTPUT_FORMAT, channel_cache, focus, everOk>>

\* The invocation has returned or raised; the caller may invoke again.
Return(p) ==
  /\ inv[p].pc \in {"done", "raised"}
  /\ inv' = [inv EXCEPT ![p] = IdleRec]
  /\ ev' = NoEvent
  /\ UNCHANGED <<started, OUTPUT_FORMAT, disk, user_cache, channel_cache, focus,
                 resolved, everOk>>

Next ==
  \/ LoadUserCache
  \/ \E p \in Procs : Invoke(p)
  \/ \E p \in Procs : LogJoin(p)
  \/ \E p \in Procs : LogRaise(p)
  \/ \E p \in Procs : BeginPaging(p)
  \/ \E p \in Procs : HistoryPage(p)
  \/ \E p \in Procs : SearchPage(p)
  \/ \E p \in Procs : PrefetchInfo(p)
  \/ \E p \in Procs : GatherStart(p)
  \/ \E p \in Procs : TaskStep(p)
  \/ \E p \in Procs : BeginChannelLookup(p)
  \/ \E p \in Procs : BeginChannelRefresh(p)
  \/ \E p \in Procs : ChannelList(p)
  \/ \E p \in Procs : RefreshUserCache(p)
  \/ \E p \in Procs : Return(p)

Spec == Init /\ [][Next]_vars

SpecPaging == InitPaging /\ [][Next]_vars

SpecChannels == InitChannels /\ [][Next]_vars

SpecHandles == InitHandles /\ [][Next]_vars

SpecProjection == InitProjection /\ [][Next]_vars

SpecTimestamps == InitTimestamps /\ [][Next]_vars

\* The steps of the invocation of p after the caller has made it.
Progress(p) ==
  \/ LogJoin(p) \/ LogRaise(p)
  \/ BeginPaging(p) \/ HistoryPage(p) \/ SearchPage(p)
  \/ PrefetchInfo(p) \/ GatherStart(p) \/ TaskStep(p)
  \/ BeginChannelLookup(p) \/ BeginChannelRefresh(p) \/ ChannelList(p)
  \/ RefreshUserCache(p)

\* Every await of make_request ends, with a response, an error or the
\* 30 s timeout, and the event loop resumes every coroutine that is ready:
\* an invocation that can take a step eventually takes one.  Which response
\* the remote gives stays its choice, and callers need not invoke or
\* collect results.
SpecTermination ==
  InitTermination /\ [][Next]_vars /\ \A p \in Procs : WF_vars(Progress(p))

\* ------------------------------------------------------------- properties

PagingOps == {"get_channel_history", "search_messages"}

\* The items of a result are the projections of the items of all, in order.
ProjectedFrom(ret, all) ==
  /\ Len(ret) = Len(all)
  /\ \A i \in DOMAIN all :
       IF OUTPUT_FORMAT = "json" THEN ret[i].ts = all[i].ts ELSE ret[i].line_ts = all[i].ts

\* C1: get_channel_history and search_messages return at most limit items,
\* whatever pages the remote serves (a page may hold more items than the
\* request asked for).
C1_ReturnsAtMostLimit ==
  \A p \in Procs :
    inv[p].op \in PagingOps /\ inv[p].pc = "done" => Len(inv[p].ret) <= inv[p].limit

\* C2: a page request in flight asks for min(200, limit - accumulated) items
\* (conversations.history) or min(100, limit - accumulated) items
\* (search.messages); the size is at least 1 and accumulated < limit.
C2_PageRequestSize ==
  \A p \in Procs :
    inv[p].pc = "page" =>
      LET remaining == inv[p].limit - Len(inv[p].all)
          cap == IF inv[p].op = "get_channel_history"
                 THEN HISTORY_PAGE_CAP ELSE SEARCH_PAGE_CAP
      IN /\ inv[p].op \in PagingOps
         /\ inv[p].req = IF cap <= remaining THEN cap ELSE remaining
         /\ inv[p].req >= 1
         /\ Len(inv[p].all) < inv[p].limit

\* A second request of conversations.history after a first full page of 200:
\* the remainder is asked for.
C2_Witness ==
  \E p \in Procs :
    /\ inv[p].pc = "page" /\ inv[p].op = "get_channel_history"
    /\ Len(inv[p].all) = HISTORY_PAGE_CAP /\ inv[p].req = 1

\* C3: once a page request has failed, the fetched items are the
\* concatenation of the pages received before it, no page request is in
\* flight any more, and the invocation does not raise: it returns the
\* projection of those items.
C3_PartialResultKept ==
  \A p \in Procs :
    inv[p].failed =>
      /\ inv[p].all = inv[p].got
      /\ inv[p].pc \notin {"page", "raised"}
      /\ inv[p].pc = "done" => ProjectedFrom(inv[p].ret, inv[p].all)

\* A get_channel_history that returned the items of its first page after
\* its second request failed.
C3_Witness ==
  \E p \in Procs :
    /\ inv[p].op = "get_channel_history" /\ inv[p].failed
    /\ inv[p].pc = "done" /\ Len(inv[p].ret) >= 1

\* The users.info requests in flight for user ID u: the one the pre-fetch
\* loop of a caller waits for, and those its suspended tasks wait for.
InFlight(u) ==
  {<<p, 0>> : p \in {q \in Procs : inv[q].pc = "prefetch" /\ inv[q].wait.user = u}}
  \cup UNION {{<<p, i>> : i \in {j \in DOMAIN inv[p].tasks :
                                     inv[p].tasks[j].call.user = u}} : p \in Procs}

\* The get_user_handle calls in flight.
PendingCalls ==
  {inv[p].wait : p \in {q \in Procs : inv[q].pc = "prefetch"}}
  \cup UNION {{inv[p].tasks[i].call : i \in DOMAIN inv[p].tasks} : p \in Procs}

\* C4: a get_user_handle(u) call that starts after another call for u has
\* completed, with no refresh_user_cache in between, issues no users.info
\* request and returns the handle the first call returned.
C4_LaterCallsAgree ==
  /\ \A c \in PendingCalls : ~c.late
  /\ \A e \in ev.calls : e.late => ~e.fetched /\ e.ret = e.first

\* C5: an invocation of get_channel_history or search_messages issues at
\* most one users.info request per user ID, pre-fetch and projection
\* together, whatever other callers do meanwhile.
C5_OneRequestPerUser ==
  \A p \in Procs : \A u \in UserIds : inv[p].reqs[u] <= 1

\* The user IDs a batch references, as author or as inline mention.
ReferencedIds(all) ==
  {u \in UserIds :
     \E i \in DOMAIN all :
       \/ all[i].user = u
       \/ \E j \in DOMAIN all[i].text : all[i].text[j] = Mention(u)}

\* C6: the pre-fetch loop calls get_user_handle exactly once for every user
\* ID the batch references and for no other: while it runs, once for each
\* ID it has taken; when it is over, once for each referenced ID.
C6_OneAttemptPerReferencedId ==
  \A p \in Procs :
    inv[p].op \in PagingOps =>
      LET refs == ReferencedIds(inv[p].all)
          taken == CASE inv[p].pc = "prefetch" -> refs \ inv[p].todo
                     [] inv[p].pc \in {"gather", "tasks", "done"} -> refs
                     [] OTHER -> {}
      IN \A u \in UserIds : inv[p].attempts[u] = IF u \in taken THEN 1 ELSE 0

\* The pre-fetch loop is over for a batch of two messages that reference
\* U2 three times, as author and as mention.
C6_Witness ==
  \E p \in Procs :
    /\ inv[p].pc = "gather" /\ Len(inv[p].all) = 2
    /\ inv[p].all[1].user = "U1" /\ inv[p].all[2].user = "U2"
    /\ inv[p].attempts["U1"] = 1 /\ inv[p].attempts["U2"] = 1

\* C7: the check-miss-fetch-insert sequence of get_user_handle is mutually
\* exclusive per user ID: at most one users.info request for an ID is in
\* flight at any time.
C7_OneFetchInFlight ==
  \A u \in UserIds : Cardinality(InFlight(u)) <= 1

\* C8: as long as no lookup of a user ID has succeeded, the cache maps the
\* ID to itself if it holds it, every completed get_user_handle call for it
\* returned the ID and left it cached, and a call that started after a
\* completed one issued no users.info request.
C8_NegativeCache ==
  \A u \in UserIds :
    ~everOk[u] =>
      /\ u \in DOMAIN user_cache => user_cache[u] = u
      /\ \A e \in ev.calls :
           e.user = u =>
             /\ e.ret = u
             /\ u \in DOMAIN user_cache
             /\ e.late => ~e.fetched

\* A later call for an ID whose only lookup failed is served by the cache.
C8_Witness ==
  \E e \in ev.calls :
    ~everOk[e.user] /\ e.late /\ ~e.fetched /\ e.ret = e.user /\ e.first = e.user

\* C9: the step that ends a failed channel reload leaves the channel cache
\* as it was; refresh_channel_cache then returns False and
\* get_channel_id_by_name the empty string.
C9_FailedReloadKeepsCache ==
  ev.reload = "failed" =>
    /\ channel_cache = ev.before
    /\ inv[ev.by].pc = "done"
    /\ inv[ev.by].ret = IF inv[ev.by].op = "refresh_channel_cache" THEN FALSE ELSE ""

\* refresh_channel_cache failed over a cache that holds channels.
C9_Witness ==
  /\ ev.reload = "failed"
  /\ inv[ev.by].op = "refresh_channel_cache"
  /\ channel_cache # EmptyDict

\* The entries of a channel list with a name and an ID.
Listed(channels) == {i \in DOMAIN channels : channels[i].name # "" /\ channels[i].id # ""}

\* C10: after a successful refresh_channel_cache the channel cache is the
\* name -> ID mapping of the list received, restricted to the entries with
\* a name and an ID: no other name is a key.
C10_CacheIsListReceived ==
  ev.reload = "ok" /\ inv[ev.by].op = "refresh_channel_cache" =>
    /\ inv[ev.by].ret = TRUE
    /\ DOMAIN channel_cache = {ev.channels[i].name : i \in Listed(ev.channels)}
    /\ \A i \in Listed(ev.channels) : channel_cache[ev.channels[i].name] = ev.channels[i].id

\* A successful refresh dropped a cached name that the list no longer holds
\* and added a name that was not cached.
C10_Witness ==
  /\ ev.reload = "ok" /\ inv[ev.by].op = "refresh_channel_cache"
  /\ \E n \in DOMAIN ev.before : n \notin DOMAIN channel_cache
  /\ \E n \in DOMAIN channel_cache : n \notin DOMAIN ev.before

\* C11: the step of get_channel_id_by_name that follows log_to_slack
\* returns the cached ID without a conversations.list request when the name
\* is in the channel cache, and issues the one request of the call when it
\* is not; the step that takes the response returns the ID the reloaded
\* cache holds for the name, or the empty string, and issues no request.
C11_LookupStep(p) ==
  LET r == inv[p]
      n == inv'[p]
  IN r.op = "get_channel_id_by_name" /\ n # r =>
       /\ r.pc = "log_post" /\ n.pc # "raised" =>
            IF r.name \in DOMAIN channel_cache
            THEN n.pc = "done" /\ n.ret = channel_cache[r.name] /\ n.lists = 0
            ELSE n.pc = "list" /\ n.lists = 1
       /\ r.pc = "list" =>
            /\ n.pc = "done" /\ n.lists = 1
            /\ n.ret = IF ev'.reload = "ok" /\ r.name \in DOMAIN channel_cache'
                       THEN channel_cache'[r.name] ELSE ""

C12_ClearStep(p) ==
  inv[p].op = "refresh_user_cache" /\ inv[p].pc = "log_post"
  /\ inv'[p] # inv[p] /\ inv'[p].pc # "raised" =>
    /\ inv'[p].pc = "done"
    /\ inv'[p].ret = Cardinality(DOMAIN user_cache)
    /\ user_cache' = EmptyDict
    /\ ev'.by = p /\ ev'.unlink \in {"none", "ok", "failed"}
    /\ ev'.unlink # "failed" => disk' = Absent
    /\ ev'.unlink = "failed" => disk' = disk /\ disk.state # "absent"

C12_ClearReturnsCount == [][\A p \in Procs : C12_ClearStep(p)]_vars

\* A refresh returned the count of two entries although the unlink of the
\* cache file failed.
C12_Witness ==
  /\ ev.unlink = "failed"
  /\ inv[ev.by].pc = "done" /\ inv[ev.by].ret = 2
  /\ user_cache = EmptyDict /\ disk.state = "doc"

\* C13: no invocation of a tool ends in an exception raised to the caller,
\* whatever remote call of it fails.
C13_NeverRaises ==
  \A p \in Procs : inv[p].pc # "raised"

\* C14: every key of the channel cache and of the user cache is a non-empty
\* string, and no channel entry has an empty ID.
C14_KeysNonEmpty ==
  /\ \A n \in DOMAIN channel_cache : n # "" /\ channel_cache[n] # ""
  /\ \A u \in DOMAIN user_cache : u # ""

\* A channel list with an entry without name or without ID was loaded into
\* a cache that holds a channel, and the user cache holds a handle, after a
\* batch with an authorless message.
C14_Witness ==
  /\ ev.reload = "ok"
  /\ \E i \in DOMAIN ev.channels : ev.channels[i].name = "" \/ ev.channels[i].id = ""
  /\ DOMAIN channel_cache # {}
  /\ DOMAIN user_cache # {}
  /\ \E p \in Procs : inv[p].pc = "done" /\ inv[p].all = <<FillerMsg>>

\* The first non-empty string of a sequence.
FirstNonEmpty(cands) ==
  cands[CHOOSE i \in DOMAIN cands :
          cands[i] # "" /\ \A j \in DOMAIN cands : j < i => cands[j] = ""]

\* C15: a get_user_handle call that took an ok users.info response returns
\* the first non-empty of profile.display_name, user.real_name, user.name
\* and the user ID, and the cache holds that handle for the ID; no cached
\* handle is empty.
C15_HandlePriority ==
  /\ \A u \in DOMAIN user_cache : user_cache[u] # ""
  /\ ev.info.status = "ok" =>
       /\ \E e \in ev.calls : e.fetched
       /\ \A e \in ev.calls :
            e.fetched =>
              /\ e.ret = FirstNonEmpty(<<ev.info.display_name, ev.info.real_name,
                                         ev.info.name, e.user>>)
              /\ e.user \in DOMAIN user_cache /\ user_cache[e.user] = e.ret

\* A response without display_name was resolved to its real_name.
C15_Witness ==
  /\ ev.info = Info("ok", "", "rn", "nm")
  /\ \E e \in ev.calls : e.fetched /\ e.ret = "rn" /\ user_cache[e.user] = "rn"

\* The projection the message m is to have, given the handle the author
\* lookup returned and the handles the mention lookups returned.
Projection(format, m, user_handle, handles) ==
  LET text == [j \in DOMAIN m.text |->
                 IF m.text[j].kind = "mention" THEN At(handles[m.text[j].val])
                 ELSE m.text[j]]
  IN IF format = "json"
     THEN IF m.thread_ts # ""
          THEN [text |-> text, user |-> user_handle, ts |-> m.ts, thread_ts |-> m.thread_ts]
          ELSE [text |-> text, user |-> user_handle, ts |-> m.ts]
     ELSE [line_ts |-> m.ts, line_user |-> user_handle, line_text |-> text,
           line_thread |-> IF m.thread_ts = "" \/ m.thread_ts = m.ts
                           THEN "" ELSE m.thread_ts]

\* C16: a finished filter_message_fields has looked up every mentioned ID,
\* and its result is the message with every <@ID> token replaced by "@" and
\* the handle its lookup returned and the author by its handle, in the
\* shape of the output format; the tool returns the results in order.
C16_ProjectionShape ==
  \A p \in Procs :
    \A i \in DOMAIN inv[p].tasks :
      inv[p].tasks[i].pc = "done" =>
        LET t == inv[p].tasks[i]
            m == inv[p].all[i]
        IN /\ \A j \in DOMAIN m.text :
                m.text[j].kind = "mention" => m.text[j].val \in DOMAIN t.repl
           /\ (m.user = "") = (t.user_handle = "")
           /\ t.out = Projection(OUTPUT_FORMAT, m, t.user_handle, t.repl)
           /\ inv[p].pc = "done" => inv[p].ret[i] = t.out

\* ---------------------------------------------------------------- C17
\* A decimal string with exactly six fractional digits.
SixFractionDigits(s) ==
  /\ Len(s) >= 8
  /\ Char(s, Len(s) - 6) = "."
  /\ AllDigits(SubSeq(s, 1, Len(s) - 7))
  /\ AllDigits(SubSeq(s, Len(s) - 5, Len(s)))

\* The invocations of get_channel_history that have converted their dates.
Converted == {p \in Procs : inv[p].op = "get_channel_history"
                            /\ inv[p].pc \notin {"log_join", "log_post", "raised"}}

C18_EntriesNeverRewritten ==
  [][\A u \in DOMAIN user_cache \cap DOMAIN user_cache' :
       user_cache'[u] = user_cache[u]]_vars

\* ---------------------------------------------------------------- C19
\* One step of the model as seen by the search_messages invocation of p.
\* The pages requested so far are 1, 2, ..., n.  A request is issued only
\* by the step that starts the loop (page 1) or by the step that takes the
\* response to the request in flight (page n + 1), one at a time.  The step
\* that takes the response to page n issues no request when the response
\* is a failure, holds no match or reports a page_count <= n (an absent
\* page_count, 0 here, counts as 1).
C19_SearchStep(p) ==
  LET r == inv[p]
      n == inv'[p]
      sent == Len(r.pages)
      total == IF ev'.page.page_count = 0 THEN 1 ELSE ev'.page.page_count
  IN r.op = "search_messages" /\ n.op = "search_messages" =>
       /\ \A i \in DOMAIN n.pages : n.pages[i] = i
       /\ n.pc = "page" => n.page = Len(n.pages)
       /\ n.pages # r.pages =>
            /\ n.pages = Append(r.pages, sent + 1)
            /\ n.pc = "page"
            /\ IF sent = 0 THEN r.pc = "log_post"
               ELSE r.pc = "page" /\ ev'.page.by = p
       /\ r.pc = "page" /\ n # r =>
            /\ ev'.page.by = p
            /\ ev'.page.status \in Fail \/ ev'.page.size = 0 \/ total <= sent
                 => n.pages = r.pages /\ n.pc # "page"

\* C19: search_messages requests the pages 1, 2, 3, ... consecutively, each
\* only after the previous response arrived, and requests no page p + 1
\* when the response to page p failed, was empty or reported
\* page_count <= p.
C19_ConsecutivePages == [][\A p \in Procs : C19_SearchStep(p)]_vars

\* A search that requested pages 1 and 2 and stopped short of its limit on a
\* non-empty page 2 that reported page_count 2.
C19_Witness ==
  \E p \in Procs :
    /\ inv[p].op = "search_messages" /\ inv[p].pages = <<1, 2>>
    /\ inv[p].pc # "page" /\ Len(inv[p].got) < inv[p].limit
    /\ ev.page.by = p /\ ev.page.status = "ok"
    /\ ev.page.size >= 1 /\ ev.page.page_count = 2

\* ---------------------------------------------------------------- C20
\* C20: every invocation of get_channel_history and of search_messages
\* that has issued a page request eventually has none in flight and has
\* returned, whatever the remote answers.
C20_PagingReturns ==
  \A p \in Procs :
    (inv[p].op \in PagingOps /\ inv[p].pc = "page") ~> (inv[p].pc = "done")

\* ---------------------------------------------------------------- C21
\* The durable document holds exactly the entries of the in-memory user
\* cache, an absent document counting as the empty mapping.
DurableMatches ==
  \/ disk.state = "doc" /\ disk.doc = user_cache
  \/ disk.state = "absent" /\ user_cache = EmptyDict

\* C21 as stated: provided file writes and deletions succeed, the durable
\* document matches the in-memory cache at every suspension point from the
\* start of the process on: the load establishes the match, and every step
\* without a failed deletion keeps it.
C21_DurableMatchesCache ==
  [][ev'.unlink # "failed" /\ (started => DurableMatches) => DurableMatches']_vars

\* C21 amended: provided the document found at the start is absent or
\* loads, and file writes and deletions succeed, the durable document
\* matches the in-memory cache at every suspension point; and whatever was
\* found at the start, every step that rewrites or deletes the document
\* makes it match.
C21_DurableMatchesOnceLoadedOrWritten ==
  [][/\ ev'.unlink # "failed"
        /\ (IF started THEN DurableMatches ELSE disk.state # "corrupt")
        => DurableMatches'
     /\ disk' # disk => DurableMatches']_vars

\* A document of two entries right after get_user_handle stored a fetched
\* handle: the new entry was added to the one already there and the
\* document rewritten in full.
C21_Witness ==
  /\ disk.state = "doc" /\ disk.doc = user_cache
  /\ Cardinality(DOMAIN user_cache) = 2
  /\ \E e \in ev.calls : e.fetched /\ e.user \in DOMAIN user_cache

====
